---- MODULE Spec2Model ----
(***************************************************************************)
(* Model of the capture-and-analysis pipeline of gradio-mcp-screenshotter: *)
(*   src/app.py          get_urls, take_screenshot, process_url,           *)
(*                       analyze_screenshots_handler                       *)
(*   src/llm_analyzer.py parse_llm_response, analyze_screenshots           *)
(*                                                                         *)
(* Strings are sequences of one-character strings.  A URL is the scheme    *)
(* token ("http://" or "https://") followed by the characters of the host  *)
(* and of the path.  Three specifications share the variables:             *)
(*   SpecDiscover  process_url's normalisation and get_urls                *)
(*   SpecCapture   process_url's two profile batches over a URL list       *)
(*   SpecAnalyze   analyze_screenshots_handler and analyze_screenshots     *)
(***************************************************************************)
EXTENDS Integers, Sequences, FiniteSets, TLC

(***************************************************************************)
(* Bounds of the model.                                                    *)
(***************************************************************************)
\* longest host name of a link found on the fetched page
MaxHostLen == 4
\* number of <a> elements on the fetched page
MaxLinks == 2

(***************************************************************************)
(* String helpers (Python str operations used by the code).                *)
(***************************************************************************)
Letters == {"a", "b"}
HostChars == Letters \cup {"."}
Schemes == {"http://", "https://"}

\* Code point order of the characters that occur; the scheme tokens only
\* occur first in a URL, where "http://" < "https://" (':' < 's').
Ord(c) ==
  CASE c = "http://" -> 1
    [] c = "https://" -> 2
    [] c = "." -> 46
    [] c = "/" -> 47
    [] c = "a" -> 97
    [] c = "b" -> 98

\* s < t in Python's str order
RECURSIVE StrLess(_, _)
StrLess(s, t) ==
  IF t = <<>> THEN FALSE
  ELSE IF s = <<>> THEN TRUE
  ELSE IF Head(s) # Head(t) THEN Ord(Head(s)) < Ord(Head(t))
  ELSE StrLess(Tail(s), Tail(t))

\* sub in s
StrContains(sub, s) ==
  \E i \in 0..(Len(s) - Len(sub)) : SubSeq(s, i + 1, i + Len(sub)) = sub

\* url.startswith(('http://', 'https://'))
HasScheme(s) == s # <<>> /\ s[1] \in Schemes

\* sorted(list(S)) for a set S of strings
RECURSIVE SortedList(_)
SortedList(S) ==
  IF S = {} THEN <<>>
  ELSE LET m == CHOOSE x \in S : \A y \in S \ {x} : StrLess(x, y)
       IN <<m>> \o SortedList(S \ {m})

(***************************************************************************)
(* urllib.parse as the code uses it.                                       *)
(***************************************************************************)
\* urlparse(u).netloc: what follows the scheme, up to the first "/"
Netloc(u) ==
  IF ~HasScheme(u) THEN <<>>
  ELSE LET slashes == {i \in 2..Len(u) : u[i] = "/"}
           stop == IF slashes = {} THEN Len(u) + 1
                   ELSE CHOOSE i \in slashes : \A j \in slashes : i <= j
       IN SubSeq(u, 2, stop - 1)

\* urljoin(base, href): an absolute href stands, a rooted path replaces the
\* path of base.
UrlJoin(base, href) ==
  IF href[1] \in Schemes \cup {"mailto:"} THEN href
  ELSE <<base[1]>> \o Netloc(base) \o href

(***************************************************************************)
(* Inputs of discovery.                                                    *)
(***************************************************************************)
WellFormedHost(h) ==
  /\ h # <<>>
  /\ h[1] # "."
  /\ h[Len(h)] # "."
  /\ \A i \in 1..(Len(h) - 1) : ~(h[i] = "." /\ h[i + 1] = ".")

\* host names of the links of the page
LinkHosts ==
  {h \in UNION {[1..k -> HostChars] : k \in 1..MaxHostLen} : WellFormedHost(h)}

\* host names of the seed: of two labels and of three
SeedHosts ==
  { <<"a", ".", "b">>, <<"b", ".", "a", ".", "b">> }

\* what the user types: with or without a scheme
SeedInputs ==
  SeedHosts \cup {<<s>> \o h : s \in Schemes, h \in SeedHosts}

\* href attributes: absolute URLs, rooted paths, a mailto: link (no netloc),
\* an empty attribute and a value urljoin/urlparse raises on
MailtoHref == <<"mailto:">>
BadHref == <<"[bad]">>
Hrefs ==
  {<<"https://">> \o h : h \in LinkHosts}
    \cup {<<"/", "a">>, <<"/", "b">>}
    \cup {MailtoHref, BadHref, <<>>}

VARIABLES
  \* ---- discovery (process_url lines 167-173, get_urls)
  d_pc,           \* "start", "fetch", "links", "done", "raised"
  seed_input,     \* the string handed to process_url
  url,            \* the seed after normalisation
  base_domain,    \* get_urls: base_domain
  fetch_outcome,  \* "none", "ok", "network_error", "parse_error"
  urls,           \* get_urls: the set urls
  nlinks,         \* <a> elements of the page visited so far
  url_list        \* what get_urls returned

VARIABLES
  \* ---- capture (process_url lines 175-198, take_screenshot)
  c_pc,                 \* "idle", "next", "submit", "collect", "cancel",
                        \* "drain", "returned", "raised"
  vp,                   \* index into ViewportTypes of the current batch
  c_urls,               \* the list urls of process_url
  return_base64,        \* process_url's argument
  task,                 \* per profile and position: the state of the future
  taken,                \* <<profile, position>> of the work items a worker
                        \* took off the queue and has not looked at yet
  at,                   \* per profile and position: where its call of
                        \* take_screenshot stands, "-" outside a call
  cancel_next,          \* the position the result iterator cancels next, 0
                        \* outside its cancel loop
  open,                 \* <<profile, position>> of sessions created and not quit
  desktop_screenshots,  \* process_url: desktop_screenshots
  mobile_screenshots,   \* process_url: mobile_screenshots
  temp_files            \* the module's set temp_files

captureVars ==
  <<c_pc, vp, c_urls, return_base64, task, taken, at, cancel_next, open,
    desktop_screenshots, mobile_screenshots, temp_files>>


VARIABLES
  a_pc,                 \* "idle", "start", "phase1", "wait1", "wait2", "done"
  desktop_gallery,      \* the handler's argument desktop_screenshots
  mobile_gallery,       \* the handler's argument mobile_screenshots
  screenshots,          \* analyze_screenshots: screenshots
  individual_analyses,  \* analyze_screenshots: individual_analyses
  issues_found_list,    \* analyze_screenshots: issues_found_list
  calls,                \* the client.chat.completions.create calls, in order
  responses,            \* the Phase-1 response texts, in order of arrival
  summary_response,     \* the Phase-2 response text
  a_result,             \* what analyze_screenshots returned
  h_result              \* what the handler returned

analyzeVars ==
  <<a_pc, desktop_gallery, mobile_gallery, screenshots, individual_analyses,
    issues_found_list, calls, responses, summary_response, a_result, h_result>>

VARIABLES
  \* ---- interpreter exit and cleanup_temp_files
  cl_pc,         \* "live", "exiting", "cleaning", "done", "raised"
  cl_attempted,  \* the files the loop of cleanup_temp_files has visited
  cl_failed,     \* the visited files whose removal raised
  cl_last        \* how the latest iteration went, "none" before the first

cleanupVars == <<cl_pc, cl_attempted, cl_failed, cl_last>>

discoverVars ==
  <<d_pc, seed_input, url, base_domain, fetch_outcome, urls, nlinks, url_list>>

(***************************************************************************)
(* Discovery: process_url's prefix step and get_urls.                      *)
(***************************************************************************)
\* process_url: prepend https:// to a seed that has no scheme
NormalizeUrl(u) == IF HasScheme(u) THEN u ELSE <<"https://">> \o u

\* get_urls: the last two labels of a host of more than two labels
BaseDomain(main_domain) ==
  LET dots == {i \in 1..Len(main_domain) : main_domain[i] = "."}
  IN IF Cardinality(dots) + 1 > 2
     THEN LET last == CHOOSE i \in dots : \A j \in dots : j <= i
              prev == CHOOSE i \in dots \ {last} : \A j \in dots \ {last} : j <= i
          IN SubSeq(main_domain, prev + 1, Len(main_domain))
     ELSE main_domain

\* get_urls: the test that keeps a link
SameSite(base, netloc) == netloc # <<>> /\ StrContains(base, netloc)

\* get_urls: what one <a> element adds to urls
LinkUrls(u, base, href) ==
  IF href = <<>> \/ href = BadHref THEN {}
  ELSE LET full_url == UrlJoin(u, href)
       IN IF SameSite(base, Netloc(full_url)) THEN {full_url} ELSE {}

\* the outer handler re-raising instead of returning
GetUrlsExceptReraise(u) == [pc |-> "raised", url_list |-> <<>>]

\* get_urls: the outer except clause
GetUrlsExcept(u) == [pc |-> "done", url_list |-> <<u>>]

\* get_urls: add the seed, sort, return
GetUrlsReturn(S, u) == SortedList(S \cup {u})

\* Python's None, the capture failure and the value not yet set
None == [kind |-> "None"]

CleanupIdle ==
  /\ cl_pc = "live"
  /\ cl_attempted = {}
  /\ cl_failed = {}
  /\ cl_last = "none"

AnalyzeIdle ==
  /\ a_pc = "idle"
  /\ desktop_gallery = <<>>
  /\ mobile_gallery = <<>>
  /\ screenshots = <<>>
  /\ individual_analyses = <<>>
  /\ issues_found_list = <<>>
  /\ calls = <<>>
  /\ responses = <<>>
  /\ summary_response = <<>>
  /\ a_result = None
  /\ h_result = None

CaptureIdle ==
  /\ c_pc = "idle"
  /\ vp = 1
  /\ c_urls = <<>>
  /\ return_base64 = FALSE
  /\ task = <<>>
  /\ taken = {}
  /\ at = <<>>
  /\ cancel_next = 0
  /\ open = {}
  /\ desktop_screenshots = <<>>
  /\ mobile_screenshots = <<>>
  /\ temp_files = {}

DiscoverIdle ==
  /\ d_pc = "idle"
  /\ seed_input = <<>>
  /\ url = <<>>
  /\ base_domain = <<>>
  /\ fetch_outcome = "none"
  /\ urls = {}
  /\ nlinks = 0
  /\ url_list = <<>>

InitDiscover ==
  /\ d_pc = "start"
  /\ seed_input \in SeedInputs
  /\ url = <<>>
  /\ base_domain = <<>>
  /\ fetch_outcome = "none"
  /\ urls = {}
  /\ nlinks = 0
  /\ url_list = <<>>
  /\ CaptureIdle
  /\ AnalyzeIdle
  /\ CleanupIdle

\* process_url normalises the seed and enters get_urls, which derives the
\* base domain
DiscoverStart ==
  /\ d_pc = "start"
  /\ url' = NormalizeUrl(seed_input)
  /\ base_domain' = BaseDomain(Netloc(url'))
  /\ d_pc' = "fetch"
  /\ UNCHANGED <<seed_input, fetch_outcome, urls, nlinks, url_list>>
  /\ UNCHANGED <<captureVars, analyzeVars, cleanupVars>>

\* requests.get and BeautifulSoup succeed
FetchOk ==
  /\ d_pc = "fetch"
  /\ fetch_outcome' = "ok"
  /\ d_pc' = "links"
  /\ UNCHANGED <<seed_input, url, base_domain, urls, nlinks, url_list>>
  /\ UNCHANGED <<captureVars, analyzeVars, cleanupVars>>

\* requests.get or BeautifulSoup raises: the outer except clause returns
FetchFail ==
  /\ d_pc = "fetch"
  /\ \E o \in {"network_error", "parse_error"} : fetch_outcome' = o
  /\ d_pc' = GetUrlsExcept(url).pc
  /\ url_list' = GetUrlsExcept(url).url_list
  /\ UNCHANGED <<seed_input, url, base_domain, urls, nlinks>>
  /\ UNCHANGED <<captureVars, analyzeVars, cleanupVars>>

\* one iteration of the loop over soup.find_all('a')
ProcessLink ==
  /\ d_pc = "links"
  /\ nlinks < MaxLinks
  /\ \E href \in Hrefs : urls' = urls \cup LinkUrls(url, base_domain, href)
  /\ nlinks' = nlinks + 1
  /\ UNCHANGED <<d_pc, seed_input, url, base_domain, fetch_outcome, url_list>>
  /\ UNCHANGED <<captureVars, analyzeVars, cleanupVars>>

\* the loop ends: add the seed, sort, return
DiscoverReturn ==
  /\ d_pc = "links"
  /\ url_list' = GetUrlsReturn(urls, url)
  /\ d_pc' = "done"
  /\ UNCHANGED <<seed_input, url, base_domain, fetch_outcome, urls, nlinks>>
  /\ UNCHANGED <<captureVars, analyzeVars, cleanupVars>>

NextDiscover ==
  \/ DiscoverStart
  \/ FetchOk
  \/ FetchFail
  \/ ProcessLink
  \/ DiscoverReturn

(***************************************************************************)
(* Capture: process_url's loop over the viewport types, the thread pool of *)
(* each batch and take_screenshot.                                         *)
(***************************************************************************)
\* number of URLs get_urls returned
MaxUrls == 3

\* captures that fail in one run of process_url
MaxFailures == 2

\* ThreadPoolExecutor(max_workers=5)
MaxWorkers == 5

\* the URLs of a run that fills the pool: one more than it has workers
PoolUrls == MaxWorkers + 1

\* the most captures that fail in a run that fills the pool
MaxPoolFailures == 1

\* for viewport_type in ['desktop', 'mobile']
ViewportTypes == <<"desktop", "mobile">>

\* the screenshot take_screenshot returns for a page: a base64 string or the
\* path of a fresh temporary file holding the PNG of that page and viewport
Screenshot(u, viewport, rb) ==
  [kind |-> IF rb THEN "base64" ELSE "path", url |-> u, viewport |-> viewport]

\* f"URL: {found_url}"
Label(u) == <<"URL: ", u>>

Positions == 1..Len(c_urls)

\* the pool admits a task whatever the number of running ones
WorkerAlwaysFree(running) == TRUE

\* a worker thread of the pool is idle or can still be created
WorkerFree(running) == Cardinality(running) < MaxWorkers

\* the captures that failed so far
Failed ==
  {pi \in (1..Len(ViewportTypes)) \X Positions :
     \/ task[pi[1]][pi[2]] \in {"none", "raised"}
     \/ at[pi[1]][pi[2]] \in {"returning", "raising"}}

\* the environment can still make a capture fail
MayFail ==
  Cardinality(Failed) < (IF Len(c_urls) < PoolUrls THEN MaxFailures ELSE MaxPoolFailures)

Running(p) == {i \in Positions : task[p][i] = "running"}
Unsubmitted(p) == {i \in Positions : task[p][i] = "unsubmitted"}
At(p, place) == {i \in Running(p) : at[p][i] = place}
Queued(p) == {i \in Positions : task[p][i] = "queued"}

\* the pending futures whose work item is still in the queue
Waiting(p) == {i \in Queued(p) : <<p, i>> \notin taken}

\* the positions a worker is busy with: it took the work item and has not
\* finished with it
Busy(p) == Running(p) \cup {i \in Positions : <<p, i>> \in taken}

\* the first position whose future raised, the ones before it having
\* yielded their results; 0 when there is none
FirstRaised(p) ==
  LET ks == {k \in Positions :
               /\ task[p][k] = "raised"
               /\ \A j \in 1..(k - 1) : task[p][j] \in {"ok", "none"}}
  IN IF ks = {} THEN 0 ELSE CHOOSE k \in ks : TRUE

\* where a call stands once its except clause has run
Leaving(r) == IF r.st = "raised" THEN "raising" ELSE "returning"

\* the handler returning None without a quit
ExceptHandlerNoQuit(driver_bound, quits, quit_raises) ==
  [st |-> "none", quits |-> quits]

\* take_screenshot: the except clause (lines 155-159); quits counts the calls
\* of driver.quit so far, quit_raises says whether the handler's call raises
ExceptHandler(driver_bound, quits, quit_raises) ==
  IF driver_bound
  THEN [st |-> IF quit_raises THEN "raised" ELSE "none", quits |-> quits + 1]
  ELSE [st |-> "none", quits |-> quits]

\* where a capture whose session was set up can fail: navigation, settle
\* delay or snapshot; the quit of line 141; the temporary file (file mode)
CaptureOutcomes(rb) ==
  {"ok", "nav_fail", "quit_fail"} \cup
    (IF rb THEN {} ELSE {"write_fail", "close_fail"})

\* the outcomes of the stretch of take_screenshot that begins at a place:
\* lines 134-141 with the session, lines 143-152 after the quit, the end of
\* the with block and the return once the path is registered
StepOutcomes(place, rb) ==
  CaptureOutcomes(rb) \cap
    (CASE place = "session" -> {"ok", "nav_fail", "quit_fail"}
       [] place = "quit_done" -> {"ok", "write_fail"}
       [] place = "registered" -> {"ok", "close_fail"})

\* take_screenshot from line 134 on, for a session that was set up
TakeScreenshotBody(outcome, quit_raises) ==
  CASE outcome = "ok" -> [st |-> "ok", quits |-> 1]
    [] outcome = "nav_fail" -> ExceptHandler(TRUE, 0, quit_raises)
    [] outcome = "quit_fail" -> ExceptHandler(TRUE, 1, quit_raises)
    [] outcome = "write_fail" -> ExceptHandler(TRUE, 1, quit_raises)
    [] outcome = "close_fail" -> ExceptHandler(TRUE, 1, quit_raises)

\* what the future at position i of batch p yields
Result(p, i) ==
  IF task[p][i] = "ok"
  THEN Screenshot(c_urls[i], ViewportTypes[p], return_base64)
  ELSE None

\* list(executor.map(...)): the results in the order of urls
ScreenshotPaths(p) == [i \in Positions |-> Result(p, i)]

RECURSIVE FilterNone(_)
FilterNone(ps) ==
  IF ps = <<>> THEN <<>>
  ELSE (IF Head(ps) # None THEN <<Head(ps)>> ELSE <<>>) \o FilterNone(Tail(ps))

RECURSIVE Zip(_, _)
Zip(us, ps) ==
  IF us = <<>> \/ ps = <<>> THEN <<>>
  ELSE << <<Head(ps), Label(Head(us))>> >> \o Zip(Tail(us), Tail(ps))

\* the failures dropped before the zip
BatchItemsFilterFirst(us, ps) == Zip(us, FilterNone(ps))

\* process_url lines 189-194: zip urls with the results, keep the truthy ones
RECURSIVE BatchItems(_, _)
BatchItems(us, ps) ==
  IF us = <<>> \/ ps = <<>> THEN <<>>
  ELSE (IF Head(ps) # None THEN << <<Head(ps), Label(Head(us))>> >> ELSE <<>>)
         \o BatchItems(Tail(us), Tail(ps))

\* the batch is left as soon as one result is there
BatchDoneEarly(p) == \E i \in Positions : task[p][i] \in {"ok", "none"}

\* list(...) has every result, none of them an exception, and the with
\* block's shutdown(wait=True) has joined the workers
BatchDone(p) == \A i \in Positions : task[p][i] \in {"ok", "none"}

InitCapture ==
  /\ c_pc = "next"
  /\ vp = 1
  /\ \E n \in 1..MaxUrls : c_urls = [i \in 1..n |-> i]
  /\ return_base64 \in BOOLEAN
  /\ task = [p \in 1..Len(ViewportTypes) |-> [i \in 1..Len(c_urls) |-> "unsubmitted"]]
  /\ taken = {}
  /\ at = [p \in 1..Len(ViewportTypes) |-> [i \in 1..Len(c_urls) |-> "-"]]
  /\ cancel_next = 0
  /\ open = {}
  /\ desktop_screenshots = <<>>
  /\ mobile_screenshots = <<>>
  /\ temp_files = {}
  /\ DiscoverIdle
  /\ AnalyzeIdle
  /\ CleanupIdle

\* executor.map submits the futures one URL at a time, in the order of urls;
\* the executor accepts futures until the interpreter begins to shut down
Submit ==
  /\ c_pc \in {"next", "submit"}
  /\ cl_pc = "live"
  /\ \E i \in Unsubmitted(vp) :
       /\ \A j \in Unsubmitted(vp) : i <= j
       /\ task' = [task EXCEPT ![vp][i] = "queued"]
       /\ c_pc' = IF Unsubmitted(vp) = {i} THEN "collect" ELSE "submit"
  /\ UNCHANGED <<vp, c_urls, return_base64, taken, at, cancel_next, open,
                 desktop_screenshots, mobile_screenshots, temp_files>>
  /\ UNCHANGED <<discoverVars, analyzeVars, cleanupVars>>

\* a worker takes the oldest work item off the queue; its future is still
\* pending
TaskTake ==
  /\ WorkerFree(Busy(vp))
  /\ \E i \in Waiting(vp) :
       /\ \A j \in Waiting(vp) : i <= j
       /\ taken' = taken \cup {<<vp, i>>}
  /\ UNCHANGED <<c_pc, vp, c_urls, return_base64, task, at, cancel_next, open,
                 desktop_screenshots, mobile_screenshots, temp_files>>
  /\ UNCHANGED <<discoverVars, analyzeVars, cleanupVars>>

\* the worker marks the future it took running and enters take_screenshot
\* and setup_driver
TaskStart ==
  /\ \E i \in Queued(vp) :
       /\ <<vp, i>> \in taken
       /\ taken' = taken \ {<<vp, i>>}
       /\ task' = [task EXCEPT ![vp][i] = "running"]
       /\ at' = [at EXCEPT ![vp][i] = "setup"]
  /\ UNCHANGED <<c_pc, vp, c_urls, return_base64, cancel_next, open,
                 desktop_screenshots, mobile_screenshots, temp_files>>
  /\ UNCHANGED <<discoverVars, analyzeVars, cleanupVars>>

\* the worker finds the future it took cancelled and drops the work item
TaskDropped ==
  /\ \E i \in Positions :
       /\ task[vp][i] = "cancelled"
       /\ <<vp, i>> \in taken
       /\ taken' = taken \ {<<vp, i>>}
  /\ UNCHANGED <<c_pc, vp, c_urls, return_base64, task, at, cancel_next, open,
                 desktop_screenshots, mobile_screenshots, temp_files>>
  /\ UNCHANGED <<discoverVars, analyzeVars, cleanupVars>>

\* setup_driver returns a session: driver is bound
SetupReturns ==
  /\ \E i \in At(vp, "setup") :
       /\ at' = [at EXCEPT ![vp][i] = "session"]
       /\ open' = open \cup {<<vp, i>>}
  /\ UNCHANGED <<c_pc, vp, c_urls, return_base64, task, taken, cancel_next,
                 desktop_screenshots, mobile_screenshots, temp_files>>
  /\ UNCHANGED <<discoverVars, analyzeVars, cleanupVars>>

\* setup_driver raises: the except clause runs with driver unbound
TaskSetupFails ==
  /\ MayFail
  /\ \E i \in At(vp, "setup") :
       at' = [at EXCEPT ![vp][i] = Leaving(ExceptHandler(FALSE, 0, FALSE))]
  /\ UNCHANGED <<c_pc, vp, c_urls, return_base64, task, taken, cancel_next, open,
                 desktop_screenshots, mobile_screenshots, temp_files>>
  /\ UNCHANGED <<discoverVars, analyzeVars, cleanupVars>>

\* lines 134-141: driver.get, the settle delay, the snapshot and driver.quit;
\* on a failure the except clause runs and calls driver.quit
TaskQuit ==
  /\ \E i \in At(vp, "session"), outcome \in StepOutcomes("session", return_base64),
        quit_raises \in BOOLEAN :
       LET r == TakeScreenshotBody(outcome, quit_raises)
       IN /\ outcome # "ok" => MayFail
          /\ outcome = "ok" => ~quit_raises
          /\ at' = [at EXCEPT ![vp][i] =
                      IF outcome = "ok" THEN "quit_done" ELSE Leaving(r)]
          /\ open' = IF r.quits > 0 THEN open \ {<<vp, i>>} ELSE open
  /\ UNCHANGED <<c_pc, vp, c_urls, return_base64, task, taken, cancel_next,
                 desktop_screenshots, mobile_screenshots, temp_files>>
  /\ UNCHANGED <<discoverVars, analyzeVars, cleanupVars>>

\* lines 143-152: the base64 string is returned, or the temporary file is
\* created and written and its path registered; on a failure before the
\* registration the except clause runs and calls driver.quit
TaskWrite ==
  /\ \E i \in At(vp, "quit_done"), outcome \in StepOutcomes("quit_done", return_base64),
        quit_raises \in BOOLEAN :
       LET r == TakeScreenshotBody(outcome, quit_raises)
       IN /\ outcome # "ok" => MayFail
          /\ outcome = "ok" => ~quit_raises
          /\ CASE outcome = "ok" /\ ~return_base64 ->
                    /\ at' = [at EXCEPT ![vp][i] = "registered"]
                    /\ temp_files' = temp_files \cup
                         {Screenshot(c_urls[i], ViewportTypes[vp], FALSE)}
                    /\ UNCHANGED task
               [] outcome = "ok" /\ return_base64 ->
                    /\ task' = [task EXCEPT ![vp][i] = r.st]
                    /\ at' = [at EXCEPT ![vp][i] = "-"]
                    /\ UNCHANGED temp_files
               [] outcome # "ok" ->
                    /\ at' = [at EXCEPT ![vp][i] = Leaving(r)]
                    /\ UNCHANGED <<task, temp_files>>
  /\ UNCHANGED <<c_pc, vp, c_urls, return_base64, taken, cancel_next, open,
                 desktop_screenshots, mobile_screenshots>>
  /\ UNCHANGED <<discoverVars, analyzeVars, cleanupVars>>

\* lines 152-153: the with block closes the file and the path is returned; on
\* a failure of the close the except clause runs with the path registered
TaskReturn ==
  /\ \E i \in At(vp, "registered"), outcome \in StepOutcomes("registered", return_base64),
        quit_raises \in BOOLEAN :
       LET r == TakeScreenshotBody(outcome, quit_raises)
       IN /\ outcome # "ok" => MayFail
          /\ outcome = "ok" => ~quit_raises
          /\ IF outcome = "ok"
             THEN /\ task' = [task EXCEPT ![vp][i] = r.st]
                  /\ at' = [at EXCEPT ![vp][i] = "-"]
             ELSE /\ at' = [at EXCEPT ![vp][i] = Leaving(r)]
                  /\ UNCHANGED task
  /\ UNCHANGED <<c_pc, vp, c_urls, return_base64, taken, cancel_next, open,
                 desktop_screenshots, mobile_screenshots, temp_files>>
  /\ UNCHANGED <<discoverVars, analyzeVars, cleanupVars>>

\* the except clause is left: take_screenshot returns None, or the exception
\* of its driver.quit leaves it, and the future is done
TaskFails ==
  /\ \E i \in At(vp, "returning") \cup At(vp, "raising") :
       /\ task' = [task EXCEPT ![vp][i] =
                     IF at[vp][i] = "raising" THEN "raised" ELSE "none"]
       /\ at' = [at EXCEPT ![vp][i] = "-"]
  /\ UNCHANGED <<c_pc, vp, c_urls, return_base64, taken, cancel_next, open,
                 desktop_screenshots, mobile_screenshots, temp_files>>
  /\ UNCHANGED <<discoverVars, analyzeVars, cleanupVars>>

\* list(executor.map(...)) reaches a future that raised: the result iterator
\* goes on to cancel the futures after it, the last one first
MainSeesException ==
  /\ c_pc = "collect"
  /\ FirstRaised(vp) # 0
  /\ IF FirstRaised(vp) = Len(c_urls)
     THEN c_pc' = "drain" /\ cancel_next' = 0
     ELSE c_pc' = "cancel" /\ cancel_next' = Len(c_urls)
  /\ UNCHANGED <<vp, c_urls, return_base64, task, taken, at, open,
                 desktop_screenshots, mobile_screenshots, temp_files>>
  /\ UNCHANGED <<discoverVars, analyzeVars, cleanupVars>>

\* one Future.cancel() of the iterator's finally clause: a pending future is
\* cancelled, a running or finished one is left as it is; after the last
\* call the exception leaves the with block
CancelStep ==
  /\ c_pc = "cancel"
  /\ task' = [task EXCEPT ![vp][cancel_next] =
                IF @ = "queued" THEN "cancelled" ELSE @]
  /\ IF cancel_next - 1 > FirstRaised(vp)
     THEN cancel_next' = cancel_next - 1 /\ c_pc' = c_pc
     ELSE cancel_next' = 0 /\ c_pc' = "drain"
  /\ UNCHANGED <<vp, c_urls, return_base64, taken, at, open,
                 desktop_screenshots, mobile_screenshots, temp_files>>
  /\ UNCHANGED <<discoverVars, analyzeVars, cleanupVars>>

\* shutdown(wait=True) has joined the workers, the pending futures that
\* were not cancelled run first: process_url raises
ProcessUrlRaises ==
  /\ c_pc = "drain"
  /\ Running(vp) = {}
  /\ Queued(vp) = {}
  /\ Busy(vp) = {}
  /\ c_pc' = "raised"
  /\ UNCHANGED <<vp, c_urls, return_base64, task, taken, at, cancel_next, open,
                 desktop_screenshots, mobile_screenshots, temp_files>>
  /\ UNCHANGED <<discoverVars, analyzeVars, cleanupVars>>

\* the batch is complete: build its gallery items and go to the next
\* viewport type, or return
BatchCollect ==
  /\ c_pc = "collect"
  /\ BatchDone(vp)
  /\ LET items == BatchItems(c_urls, ScreenshotPaths(vp))
     IN IF ViewportTypes[vp] = "desktop"
        THEN /\ desktop_screenshots' = desktop_screenshots \o items
             /\ UNCHANGED mobile_screenshots
        ELSE /\ mobile_screenshots' = mobile_screenshots \o items
             /\ UNCHANGED desktop_screenshots
  /\ IF vp < Len(ViewportTypes)
     THEN vp' = vp + 1 /\ c_pc' = "next"
     ELSE vp' = vp /\ c_pc' = "returned"
  /\ UNCHANGED <<c_urls, return_base64, task, taken, at, cancel_next, open,
                 temp_files>>
  /\ UNCHANGED <<discoverVars, analyzeVars, cleanupVars>>

NextCapture ==
  \/ Submit
  \/ TaskTake
  \/ TaskStart
  \/ TaskDropped
  \/ SetupReturns
  \/ TaskSetupFails
  \/ TaskQuit
  \/ TaskWrite
  \/ TaskReturn
  \/ TaskFails
  \/ MainSeesException
  \/ CancelStep
  \/ ProcessUrlRaises
  \/ BatchCollect

(***************************************************************************)
(* Analysis: analyze_screenshots_handler, analyze_screenshots and the      *)
(* parsers of llm_analyzer.py.  A text is the sequence of its lines        *)
(* (text.split('\n')), a line a sequence of tokens: words, " ", ":", ",".  *)
(***************************************************************************)
\* screenshots in the two galleries handed to the handler
MaxImages == 2
\* lines of a reduction response
MaxSummaryLines == 3

\* message.content is None
NoContent == << <<"<None>">> >>

RECURSIVE LStrip(_)
LStrip(ts) ==
  IF ts # <<>> /\ Head(ts) = " " THEN LStrip(Tail(ts)) ELSE ts

RECURSIVE RStrip(_)
RStrip(ts) ==
  IF ts # <<>> /\ ts[Len(ts)] = " " THEN RStrip(SubSeq(ts, 1, Len(ts) - 1)) ELSE ts

\* str.strip()
Strip(ts) == RStrip(LStrip(ts))

LowerToken(t) ==
  CASE t = "True" -> "true"
    [] t = "TRUE" -> "true"
    [] t = "False" -> "false"
    [] OTHER -> t

\* str.lower()
Lower(ts) == [i \in 1..Len(ts) |-> LowerToken(ts[i])]

\* line.startswith(label + ':')
StartsWithLabel(line, label) ==
  Len(line) >= 2 /\ line[1] = label /\ line[2] = ":"

\* line.split(':', 1)[1] of a line that starts with a label and a colon
AfterColon(line) == SubSeq(line, 3, Len(line))

\* the lines of a text that start with the label
LabelledLines(text, label) ==
  {i \in 1..Len(text) : StartsWithLabel(text[i], label)}

\* next(line for line in lines if line.startswith(label + ':'))
FirstLine(text, label) ==
  text[CHOOSE i \in LabelledLines(text, label) :
         \A j \in LabelledLines(text, label) : i <= j]

\* s.split(',')
RECURSIVE SplitComma(_)
SplitComma(ts) ==
  IF \A i \in 1..Len(ts) : ts[i] # "," THEN <<ts>>
  ELSE LET k == CHOOSE i \in 1..Len(ts) :
                  ts[i] = "," /\ \A j \in 1..(i - 1) : ts[j] # ","
       IN <<SubSeq(ts, 1, k - 1)>> \o SplitComma(SubSeq(ts, k + 1, Len(ts)))

\* [issue.strip() for issue in items if issue.strip()]
RECURSIVE StripItems(_)
StripItems(items) ==
  IF items = <<>> THEN <<>>
  ELSE (IF Strip(Head(items)) # <<>> THEN <<Strip(Head(items))>> ELSE <<>>)
         \o StripItems(Tail(items))

\* parse_llm_response: the finding of the except clause
FallbackFinding ==
  [issues_found |-> FALSE, details |-> <<"Error parsing response">>]

\* a response without a DETAILS line still parsed, with empty details
ParseLlmResponseNoDetails(text) ==
  IF text = NoContent \/ LabelledLines(text, "ISSUES_FOUND") = {}
  THEN FallbackFinding
  ELSE [issues_found |->
          Lower(Strip(AfterColon(FirstLine(text, "ISSUES_FOUND")))) = <<"true">>,
        details |-> IF LabelledLines(text, "DETAILS") = {} THEN <<>>
                    ELSE Strip(AfterColon(FirstLine(text, "DETAILS")))]

\* parse_llm_response
ParseLlmResponse(text) ==
  IF \/ text = NoContent
     \/ LabelledLines(text, "ISSUES_FOUND") = {}
     \/ LabelledLines(text, "DETAILS") = {}
  THEN FallbackFinding
  ELSE [issues_found |->
          Lower(Strip(AfterColon(FirstLine(text, "ISSUES_FOUND")))) = <<"true">>,
        details |-> Strip(AfterColon(FirstLine(text, "DETAILS")))]

\* parse_summary_response
ParseSummaryResponse(text, all_passed) ==
  IF \/ text = NoContent
     \/ LabelledLines(text, "SUMMARY") = {}
     \/ LabelledLines(text, "COMMON_ISSUES") = {}
     \/ LabelledLines(text, "OVERALL_ASSESSMENT") = {}
  THEN [summary |-> <<"Error parsing summary">>,
        common_issues |-> <<>>,
        overall_assessment |-> <<"Error parsing assessment">>,
        all_passed |-> all_passed]
  ELSE [summary |-> Strip(AfterColon(FirstLine(text, "SUMMARY"))),
        common_issues |->
          StripItems(SplitComma(Strip(AfterColon(FirstLine(text, "COMMON_ISSUES"))))),
        overall_assessment |->
          Strip(AfterColon(FirstLine(text, "OVERALL_ASSESSMENT"))),
        all_passed |-> all_passed]

\* analyze_screenshots: all_passed = all(issues_found_list)
AllPassed(flags) == \A i \in 1..Len(flags) : flags[i]

\* the analysis put in front of the list
PrependAnalysis(analyses, i, finding) ==
  <<[index |-> i, finding |-> finding]>> \o analyses

\* analyze_screenshots: individual_analyses.append(f"Screenshot {i} Analysis:...")
AppendAnalysis(analyses, i, finding) ==
  Append(analyses, [index |-> i, finding |-> finding])

\* the handler without its check
HandlerNoCheck(desktop, mobile) == FALSE

\* the handler: not desktop_screenshots and not mobile_screenshots
NothingToAnalyze(desktop, mobile) == desktop = <<>> /\ mobile = <<>>

\* the handler's message for empty galleries
NoScreenshotsMessage == [kind |-> "no_screenshots"]

\* analyze_screenshots: the string of its except clause
AnalysisError == [kind |-> "error"]

\* analyze_screenshots: final_response, the analyses and the summary JSON
FinalResponse(analyses, summary) ==
  [kind |-> "report", findings |-> analyses, summary |-> summary]

\* the handler from line 211 on: split at "\n\nSUMMARY:\n", one card per part
\* that holds "Screenshot", the summary fields summary_data.get reads
FormatAnalysis(r) ==
  IF r.kind = "report"
  THEN [kind |-> "html",
        summary |-> <<[summary |-> r.summary.summary,
                       common_issues |-> r.summary.common_issues,
                       overall_assessment |-> r.summary.overall_assessment]>>,
        cards |-> [k \in 1..Len(r.findings) |->
                     [screenshot_num |-> r.findings[k].index,
                      issues_found |-> r.findings[k].finding.issues_found,
                      details |-> r.findings[k].finding.details]]]
  ELSE [kind |-> "html", summary |-> <<>>, cards |-> <<>>]

(***************************************************************************)
(* Inputs of the analysis.                                                 *)
(***************************************************************************)
IssuesTrueLine == <<"ISSUES_FOUND", ":", " ", "True", " ">>
IssuesFalseLine == <<"ISSUES_FOUND", ":", " ", "false">>
DetailsCutOffLine == <<"DETAILS", ":", " ", "text cut off at footer">>
DetailsNoIssuesLine == <<"DETAILS", ":", " ", "No serious styling issues found">>

\* per-image model responses
\* a line without a label, and a label put after a space
JunkLine == <<"Here is my analysis">>
IndentedIssuesLine == <<" ", "ISSUES_FOUND", ":", " ", "true">>

Phase1Responses ==
  { <<IssuesTrueLine, DetailsCutOffLine>>,
    <<IssuesFalseLine, DetailsNoIssuesLine>>,
    <<JunkLine, IssuesFalseLine, DetailsNoIssuesLine>>,
    <<IssuesTrueLine>>,
    <<DetailsCutOffLine>>,
    <<IndentedIssuesLine, DetailsCutOffLine>>,
    NoContent }

SummaryLine == <<"SUMMARY", ":", " ", "two pages cut off">>
CommonIssuesLine ==
  <<"COMMON_ISSUES", ":", " ", "overflow", ",", " ", ",", " ", "contrast">>
OverallLine == <<"OVERALL_ASSESSMENT", ":", " ", "needs work">>

\* a label that lacks its colon
MalformedOverallLine == <<"OVERALL_ASSESSMENT", " ", "needs work">>

SummaryLines ==
  {SummaryLine, CommonIssuesLine, OverallLine, MalformedOverallLine}

\* reduction responses: the texts of up to MaxSummaryLines of these lines
Phase2Responses ==
  UNION {[1..k -> SummaryLines] : k \in 0..MaxSummaryLines} \cup {NoContent}

\* a gallery of n screenshots of one viewport type
Gallery(n, viewport) ==
  [i \in 1..n |-> <<Screenshot(i, viewport, FALSE), Label(i)>>]

InitAnalyze ==
  /\ a_pc = "start"
  /\ \E nd \in 0..MaxImages : \E nm \in 0..(MaxImages - nd) :
       /\ desktop_gallery = Gallery(nd, "desktop")
       /\ mobile_gallery = Gallery(nm, "mobile")
  /\ screenshots = <<>>
  /\ individual_analyses = <<>>
  /\ issues_found_list = <<>>
  /\ calls = <<>>
  /\ responses = <<>>
  /\ summary_response = <<>>
  /\ a_result = None
  /\ h_result = None
  /\ DiscoverIdle
  /\ CaptureIdle
  /\ CleanupIdle

\* the handler returns its message for empty galleries
HandlerEmpty ==
  /\ a_pc = "start"
  /\ NothingToAnalyze(desktop_gallery, mobile_gallery)
  /\ h_result' = NoScreenshotsMessage
  /\ a_pc' = "done"
  /\ UNCHANGED <<desktop_gallery, mobile_gallery, screenshots, individual_analyses,
                 issues_found_list, calls, responses, a_result>>
  /\ UNCHANGED <<discoverVars, captureVars, cleanupVars, summary_response>>

\* the handler calls analyze_screenshots with the images of both galleries
HandlerCalls ==
  /\ a_pc = "start"
  /\ ~NothingToAnalyze(desktop_gallery, mobile_gallery)
  /\ screenshots' = [k \in 1..(Len(desktop_gallery) + Len(mobile_gallery)) |->
                       (desktop_gallery \o mobile_gallery)[k][1]]
  /\ a_pc' = "phase1"
  /\ UNCHANGED <<desktop_gallery, mobile_gallery, individual_analyses,
                 issues_found_list, calls, responses, a_result, h_result>>
  /\ UNCHANGED <<discoverVars, captureVars, cleanupVars, summary_response>>

\* the loop reads the next image and issues its request
Phase1Request ==
  /\ a_pc = "phase1"
  /\ Len(individual_analyses) < Len(screenshots)
  /\ LET i == Len(individual_analyses) + 1
     IN calls' = Append(calls, [phase |-> 1, index |-> i, image |-> screenshots[i],
                                completed |-> FALSE])
  /\ a_pc' = "wait1"
  /\ UNCHANGED <<desktop_gallery, mobile_gallery, screenshots, individual_analyses,
                 issues_found_list, responses, a_result, h_result>>
  /\ UNCHANGED <<discoverVars, captureVars, cleanupVars, summary_response>>

\* the response of the pending Phase-1 request arrives and is parsed
Phase1Response ==
  /\ a_pc = "wait1"
  /\ \E text \in Phase1Responses :
       LET i == Len(individual_analyses) + 1
           analysis == ParseLlmResponse(text)
       IN /\ responses' = Append(responses, text)
          /\ individual_analyses' = AppendAnalysis(individual_analyses, i, analysis)
          /\ issues_found_list' = Append(issues_found_list, analysis.issues_found)
  /\ calls' = [calls EXCEPT ![Len(calls)].completed = TRUE]
  /\ a_pc' = "phase1"
  /\ UNCHANGED <<desktop_gallery, mobile_gallery, screenshots, a_result, h_result>>
  /\ UNCHANGED <<discoverVars, captureVars, cleanupVars, summary_response>>

\* reading the image file or the pending request raises: the except clause
\* of analyze_screenshots returns its string, which the handler formats
AnalysisFails ==
  /\ \/ a_pc = "phase1" /\ Len(individual_analyses) < Len(screenshots)
     \/ a_pc \in {"wait1", "wait2"}
  /\ a_result' = AnalysisError
  /\ h_result' = FormatAnalysis(a_result')
  /\ a_pc' = "done"
  /\ UNCHANGED <<desktop_gallery, mobile_gallery, screenshots, individual_analyses,
                 issues_found_list, calls, responses>>
  /\ UNCHANGED <<discoverVars, captureVars, cleanupVars, summary_response>>

\* the loop is over: the reduction request is issued
Phase2Request ==
  /\ a_pc = "phase1"
  /\ Len(individual_analyses) = Len(screenshots)
  /\ calls' = Append(calls, [phase |-> 2, analyses |-> individual_analyses,
                             completed |-> FALSE])
  /\ a_pc' = "wait2"
  /\ UNCHANGED <<desktop_gallery, mobile_gallery, screenshots, individual_analyses,
                 issues_found_list, responses, a_result, h_result>>
  /\ UNCHANGED <<discoverVars, captureVars, cleanupVars, summary_response>>

\* the reduction response arrives: all_passed, the summary, the final
\* response, and the handler's rendering of it
Phase2Response ==
  /\ a_pc = "wait2"
  /\ \E text \in Phase2Responses :
       LET all_passed == AllPassed(issues_found_list)
           summary == ParseSummaryResponse(text, all_passed)
       IN /\ a_result' = FinalResponse(individual_analyses, summary)
          /\ summary_response' = text
  /\ h_result' = FormatAnalysis(a_result')
  /\ calls' = [calls EXCEPT ![Len(calls)].completed = TRUE]
  /\ a_pc' = "done"
  /\ UNCHANGED <<desktop_gallery, mobile_gallery, screenshots, individual_analyses,
                 issues_found_list, responses>>
  /\ UNCHANGED <<discoverVars, captureVars, cleanupVars>>

NextAnalyze ==
  \/ HandlerEmpty
  \/ HandlerCalls
  \/ Phase1Request
  \/ Phase1Response
  \/ AnalysisFails
  \/ Phase2Request
  \/ Phase2Response

(***************************************************************************)
(* Exit: the interpreter joins the pool's workers, then runs the atexit    *)
(* handler cleanup_temp_files over the registry temp_files.                *)
(***************************************************************************)
\* the most URLs of a capture that is followed through the exit
MaxCleanupUrls == 2

\* the except clause of the loop body re-raising
CleanupExceptReraise(file_path) == [pc |-> "raised"]

\* except Exception as e: print(...): the loop goes on
CleanupExcept(file_path) == [pc |-> "cleaning"]

\* how one iteration can go: os.path.exists is true and os.remove succeeds,
\* os.path.exists is false, or os.remove raises
CleanupOutcomes == {"removed", "missing", "error"}

\* a run over enough URLs to fill the pool, in base64 mode: no path is
\* registered and TaskReturn has nothing to do
InitPool ==
  /\ c_pc = "next"
  /\ vp = 1
  /\ c_urls = [i \in 1..PoolUrls |-> i]
  /\ return_base64 = TRUE
  /\ task = [p \in 1..Len(ViewportTypes) |-> [i \in 1..Len(c_urls) |-> "unsubmitted"]]
  /\ taken = {}
  /\ at = [p \in 1..Len(ViewportTypes) |-> [i \in 1..Len(c_urls) |-> "-"]]
  /\ cancel_next = 0
  /\ open = {}
  /\ desktop_screenshots = <<>>
  /\ mobile_screenshots = <<>>
  /\ temp_files = {}
  /\ DiscoverIdle
  /\ AnalyzeIdle
  /\ CleanupIdle

NextPool ==
  \/ Submit
  \/ TaskTake
  \/ TaskStart
  \/ TaskDropped
  \/ SetupReturns
  \/ TaskSetupFails
  \/ TaskQuit
  \/ TaskWrite
  \/ TaskFails
  \/ MainSeesException
  \/ CancelStep
  \/ ProcessUrlRaises
  \/ BatchCollect

InitCleanup ==
  /\ c_pc = "next"
  /\ vp = 1
  /\ \E n \in 1..MaxCleanupUrls : c_urls = [i \in 1..n |-> i]
  /\ return_base64 \in BOOLEAN
  /\ task = [p \in 1..Len(ViewportTypes) |-> [i \in 1..Len(c_urls) |-> "unsubmitted"]]
  /\ taken = {}
  /\ at = [p \in 1..Len(ViewportTypes) |-> [i \in 1..Len(c_urls) |-> "-"]]
  /\ cancel_next = 0
  /\ open = {}
  /\ desktop_screenshots = <<>>
  /\ mobile_screenshots = <<>>
  /\ temp_files = {}
  /\ DiscoverIdle
  /\ AnalyzeIdle
  /\ CleanupIdle

\* the process begins to exit, at any point of a capture
ExitBegins ==
  /\ cl_pc = "live"
  /\ cl_pc' = "exiting"
  /\ UNCHANGED <<cl_attempted, cl_failed, cl_last>>
  /\ UNCHANGED <<discoverVars, captureVars, analyzeVars>>

\* a submit of executor.map after the shutdown began raises: the futures
\* submitted before it stay pending and the exception leaves the with block
SubmitAfterShutdown ==
  /\ c_pc \in {"next", "submit"}
  /\ cl_pc # "live"
  /\ c_pc' = "drain"
  /\ UNCHANGED <<vp, c_urls, return_base64, task, taken, at, cancel_next, open,
                 desktop_screenshots, mobile_screenshots, temp_files>>
  /\ UNCHANGED <<discoverVars, analyzeVars, cleanupVars>>

\* the pool's workers are joined, pending futures included, before the
\* atexit handlers run: cleanup_temp_files is entered
CleanupStart ==
  /\ cl_pc = "exiting"
  /\ \A p \in 1..Len(ViewportTypes) : Busy(p) = {} /\ Waiting(p) = {}
  /\ cl_pc' = "cleaning"
  /\ UNCHANGED <<cl_attempted, cl_failed, cl_last>>
  /\ UNCHANGED <<discoverVars, captureVars, analyzeVars>>

\* one iteration of for file_path in temp_files, in the set's order
CleanupStep ==
  /\ cl_pc = "cleaning"
  /\ \E file_path \in temp_files \ cl_attempted, outcome \in CleanupOutcomes :
       /\ cl_attempted' = cl_attempted \cup {file_path}
       /\ cl_last' = outcome
       /\ IF outcome = "error"
          THEN /\ cl_failed' = cl_failed \cup {file_path}
               /\ cl_pc' = CleanupExcept(file_path).pc
          ELSE UNCHANGED <<cl_failed, cl_pc>>
  /\ UNCHANGED <<discoverVars, captureVars, analyzeVars>>

\* the iteration is exhausted: cleanup_temp_files returns
CleanupEnd ==
  /\ cl_pc = "cleaning"
  /\ temp_files \ cl_attempted = {}
  /\ cl_pc' = "done"
  /\ UNCHANGED <<cl_attempted, cl_failed, cl_last>>
  /\ UNCHANGED <<discoverVars, captureVars, analyzeVars>>

NextCleanup ==
  \/ Submit
  \/ TaskTake
  \/ TaskStart
  \/ TaskDropped
  \/ SetupReturns
  \/ TaskSetupFails
  \/ TaskQuit
  \/ TaskWrite
  \/ TaskReturn
  \/ TaskFails
  \/ MainSeesException
  \/ CancelStep
  \/ ProcessUrlRaises
  \/ BatchCollect
  \/ ExitBegins
  \/ SubmitAfterShutdown
  \/ CleanupStart
  \/ CleanupStep
  \/ CleanupEnd

vars == <<discoverVars, captureVars, analyzeVars, cleanupVars>>

SpecCapture == InitCapture /\ [][NextCapture]_vars

SpecPool == InitPool /\ [][NextPool]_vars

SpecAnalyze == InitAnalyze /\ [][NextAnalyze]_vars

SpecDiscover == InitDiscover /\ [][NextDiscover]_vars

SpecCleanup == InitCleanup /\ [][NextCleanup]_vars

(***************************************************************************)
(* Claims.                                                                 *)
(***************************************************************************)
\* the findings of the report analyze_screenshots returned
ReportFindings == a_result.findings

ReportDone == a_pc = "done" /\ a_result.kind = "report"

\* C1: for a run with at least one finding, the summary's all_passed is true
\* exactly when every Phase-1 finding has issues_found = false.
C1_AllPassedIffNoIssues ==
  (ReportDone /\ Len(ReportFindings) >= 1) =>
    (a_result.summary.all_passed <=>
       \A i \in 1..Len(ReportFindings) : ~ReportFindings[i].finding.issues_found)

\* the gallery list process_url built for batch p
BatchOutput(p) ==
  IF ViewportTypes[p] = "desktop" THEN desktop_screenshots ELSE mobile_screenshots

\* batch p has been collected
Collected(p) == p < vp \/ c_pc = "returned"

\* the positions of the URL list whose capture succeeded in batch p
Succeeded(p) == {i \in Positions : task[p][i] = "ok"}

\* position of a URL in the URL list
PositionOf(u) == CHOOSE i \in Positions : c_urls[i] = u

\* C2: the output list of a profile batch is the subsequence of the URL list
\* restricted to the URLs whose capture succeeded: every entry is the image
\* rendered from the URL it is labelled with, under the batch's profile, and
\* the entries are in the order of the URL list, whatever the completion
\* order and the set of failures.
C2_OutputIsSubsequence ==
  \A p \in 1..Len(ViewportTypes) :
    Collected(p) =>
      LET out == BatchOutput(p)
      IN /\ Len(out) = Cardinality(Succeeded(p))
         /\ \A k \in 1..Len(out) :
              /\ out[k][1].url \in {c_urls[i] : i \in Succeeded(p)}
              /\ out[k][1].viewport = ViewportTypes[p]
              /\ out[k][2] = Label(out[k][1].url)
         /\ \A k, l \in 1..Len(out) :
              k < l => PositionOf(out[k][1].url) < PositionOf(out[l][1].url)

\* the batch over [u1, u2, u3] with u2 failing has been collected
C2_Witness ==
  /\ c_pc = "returned"
  /\ Len(c_urls) = 3
  /\ task[1][1] = "ok" /\ task[1][2] = "none" /\ task[1][3] = "ok"
  /\ Len(desktop_screenshots) = 2

\* C3: when a take_screenshot call that opened a session has ended (returned
\* or raised), driver.quit has been invoked on its session: no session stays
\* open after its call.
C3_NoSessionLeak ==
  \A p \in 1..Len(ViewportTypes) : \A i \in Positions :
    task[p][i] \in {"ok", "none", "raised"} => <<p, i>> \notin open

\* a call ended on the normal path and another in the except clause with its
\* session set up, and neither left a session
C3_Witness ==
  \E p \in 1..Len(ViewportTypes) : \E i, j \in Positions :
    /\ task[p][i] = "ok"
    /\ task[p][j] = "raised"
    /\ <<p, i>> \notin open
    /\ <<p, j>> \notin open

\* C4: an exception at any step of one take_screenshot call is returned as
\* None and never propagates; every other URL of the batch and every URL of
\* the following batch is attempted and the run returns its lists.
C4_FailureContained ==
  /\ \A p \in 1..Len(ViewportTypes) : \A i \in Positions :
       task[p][i] \notin {"raised", "cancelled"}
  /\ c_pc # "raised"

\* C5: at most 5 render sessions are open at the same time.
C5_AtMostFiveSessions == Cardinality(open) <= 5

\* five sessions are open while a sixth URL waits
C5_Witness == Cardinality(open) = 5 /\ Queued(vp) # {}

\* C6: no render task of the mobile batch starts before every render task of
\* the desktop batch has finished.
C6_BatchesNotInterleaved ==
  (\E j \in Positions : task[2][j] \in {"running", "ok", "none", "raised"}) =>
    (\A i \in Positions : task[1][i] \in {"ok", "none", "raised"})

\* a mobile task runs after a desktop batch with a failure
C6_Witness ==
  /\ \E j \in Positions : task[2][j] = "running"
  /\ \E i \in Positions : task[1][i] = "none"
  /\ \E i \in Positions : task[1][i] = "ok"

\* C7: with no image in either gallery the analysis returns the
\* nothing-to-analyze message and issues no inference request, neither of
\* Phase 1 nor of Phase 2.
C7_EmptyInputNoCalls ==
  (desktop_gallery = <<>> /\ mobile_gallery = <<>>) =>
    /\ calls = <<>>
    /\ a_pc = "done" => h_result = NoScreenshotsMessage

\* the handler has returned for empty galleries
C7_Witness ==
  /\ a_pc = "done"
  /\ desktop_gallery = <<>> /\ mobile_gallery = <<>>
  /\ h_result = NoScreenshotsMessage

\* C8: discovery never raises; its list holds the normalized seed, and is
\* exactly the one-element list of the seed when the fetch or the parse fails.
C8_SeedAlwaysDiscovered ==
  /\ d_pc # "raised"
  /\ d_pc = "done" =>
       /\ HasScheme(url)
       /\ url = seed_input \/ url = <<"https://">> \o seed_input
       /\ \E k \in 1..Len(url_list) : url_list[k] = url
       /\ fetch_outcome # "ok" => url_list = <<url>>

\* the fetch of a seed typed without a scheme failed
C8_Witness ==
  /\ d_pc = "done"
  /\ fetch_outcome = "network_error"
  /\ ~HasScheme(seed_input)
  /\ url_list = <<url>>

\* s.endswith(suf)
EndsWith(s, suf) ==
  /\ Len(suf) <= Len(s)
  /\ SubSeq(s, Len(s) - Len(suf) + 1, Len(s)) = suf

\* the suffix-boundary test: host == base or host.endswith("." + base)
SameSiteSuffix(base, netloc) ==
  netloc = base \/ EndsWith(netloc, <<".">> \o base)

\* C9: the host of every discovered URL equals the seed's base domain or
\* ends with "." followed by it.
C9_SameRegistrableDomain ==
  d_pc = "done" =>
    \A k \in 1..Len(url_list) : SameSiteSuffix(base_domain, Netloc(url_list[k]))

\* C10: the requests are issued one after the other, each completed before
\* the next; a completed analysis of N >= 1 images issued one Phase-1 request
\* per image in submission order, then one Phase-2 request, and its report
\* holds N findings, finding i being the parse of the response to image i.
C10_FindingsMatchImages ==
  /\ \A k \in 1..(Len(calls) - 1) : calls[k].completed
  /\ (ReportDone /\ Len(screenshots) >= 1) =>
       LET n == Len(screenshots)
       IN /\ screenshots =
               [k \in 1..(Len(desktop_gallery) + Len(mobile_gallery)) |->
                  (desktop_gallery \o mobile_gallery)[k][1]]
          /\ Len(calls) = n + 1
          /\ \A i \in 1..n :
               /\ calls[i].phase = 1
               /\ calls[i].index = i
               /\ calls[i].image = screenshots[i]
          /\ calls[n + 1].phase = 2
          /\ Len(ReportFindings) = n
          /\ \A i \in 1..n :
               /\ ReportFindings[i].index = i
               /\ ReportFindings[i].finding = ParseLlmResponse(responses[i])

\* a report over two images whose responses parse differently
C10_Witness ==
  /\ ReportDone
  /\ Len(screenshots) >= 2
  /\ ReportFindings[1].finding # ReportFindings[2].finding

\* an inference call raised: the run ended with its last request pending
InferenceFailed ==
  a_pc = "done" /\ calls # <<>> /\ ~calls[Len(calls)].completed

\* C11: when an inference call fails (Phase 1 for any image, or Phase 2),
\* analyze_screenshots returns the error string and no report, so none of the
\* findings computed before; and the handler hands that error string to its
\* caller.
C11_ErrorStringSurfaced ==
  InferenceFailed =>
    /\ a_result = AnalysisError
    /\ h_result = AnalysisError

\* the text has a line that begins with the label and a colon
HasLabel(text, label) ==
  /\ text # NoContent
  /\ \E i \in 1..Len(text) :
       Len(text[i]) >= 2 /\ text[i][1] = label /\ text[i][2] = ":"

\* C12: each of the three fields of the summary keeps the value of its own
\* labelled line when that line is there and gets its fallback value only
\* when its own line is missing or malformed; all_passed is carried through.
C12_FallbackPerField ==
  ReportDone =>
    LET t == summary_response
        sm == a_result.summary
    IN /\ sm.summary = IF HasLabel(t, "SUMMARY") THEN <<"two pages cut off">>
                       ELSE <<"Error parsing summary">>
       /\ sm.common_issues = IF HasLabel(t, "COMMON_ISSUES")
                             THEN << <<"overflow">>, <<"contrast">> >>
                             ELSE <<>>
       /\ sm.overall_assessment = IF HasLabel(t, "OVERALL_ASSESSMENT")
                                  THEN <<"needs work">>
                                  ELSE <<"Error parsing assessment">>
       /\ sm.all_passed = (\A i \in 1..Len(issues_found_list) : issues_found_list[i])

\* the finding the claim gives for a response, with the details text of the
\* fallback as a parameter
ClaimedFinding(text, fallback_details) ==
  IF ~HasLabel(text, "ISSUES_FOUND") \/ ~HasLabel(text, "DETAILS")
  THEN [issues_found |-> FALSE, details |-> fallback_details]
  ELSE [issues_found |-> \E i \in 1..Len(text) : text[i] = IssuesTrueLine,
        details |-> IF \E i \in 1..Len(text) : text[i] = DetailsCutOffLine
                    THEN <<"text cut off at footer">>
                    ELSE <<"No serious styling issues found">>]

\* C13 as stated: a response that lacks the ISSUES_FOUND line or the DETAILS
\* line gives the finding {false, "error parsing response"}, a response with
\* both lines gives their flag and details, and every response gives a
\* finding, so the loop goes on.
C13_FallbackLowercase ==
  /\ Len(individual_analyses) = Len(responses)
  /\ \A i \in 1..Len(individual_analyses) :
       individual_analyses[i].finding =
         ClaimedFinding(responses[i], <<"error parsing response">>)

\* C13, amended: the same with the details text "Error parsing response".
C13_FallbackFinding ==
  /\ Len(individual_analyses) = Len(responses)
  /\ \A i \in 1..Len(individual_analyses) :
       individual_analyses[i].finding =
         ClaimedFinding(responses[i], <<"Error parsing response">>)

\* a response without its DETAILS line gave the fallback finding and the
\* next image was analysed from a response with both lines
C13_Witness ==
  /\ Len(individual_analyses) >= 2
  /\ responses[1] = <<IssuesTrueLine>>
  /\ individual_analyses[1].finding =
       [issues_found |-> FALSE, details |-> <<"Error parsing response">>]
  /\ responses[2] = <<IssuesTrueLine, DetailsCutOffLine>>
  /\ individual_analyses[2].finding =
       [issues_found |-> TRUE, details |-> <<"text cut off at footer">>]

\* the paths the captures have returned so far
ReturnedPaths ==
  {Screenshot(c_urls[i], ViewportTypes[p], FALSE) :
     <<p, i>> \in {q \in (1..Len(ViewportTypes)) \X Positions :
                     task[q[1]][q[2]] = "ok"}}

\* C14: in file mode every path a capture has returned is in temp_files,
\* whatever the interleaving of the capture tasks; the exit cleanup never
\* raises, no capture adds to the registry while it iterates, and when it
\* returns it has attempted every registered file, also after a removal
\* that failed.
C14_RegisteredAndSwept ==
  /\ ~return_base64 => ReturnedPaths \subseteq temp_files
  /\ cl_pc # "raised"
  /\ cl_pc \in {"cleaning", "done"} =>
       \A p \in 1..Len(ViewportTypes) : Busy(p) = {} /\ Waiting(p) = {}
  /\ cl_failed \subseteq cl_attempted /\ cl_attempted \subseteq temp_files
  /\ cl_pc = "done" => cl_attempted = temp_files

\* several captures registered their files, and the cleanup returned after a removal failed and a later file was removed
C14_Witness ==
  /\ cl_pc = "done"
  /\ Cardinality(temp_files) >= 2
  /\ cl_failed # {}
  /\ cl_last = "removed"
  /\ cl_attempted = temp_files

====
